---- MODULE Spec2Model ----
(***************************************************************************)
(* mosql.common2: the SQL builders insert, select, update and delete.     *)
(*                                                                         *)
(* A text is a sequence of atoms (one-character strings, or one keyword). *)
(* A caller value is a record [t, v]: t is the Python type, v the payload. *)
(* A mapping carries its entries in its native iteration order, which is   *)
(* any order of its entries.  The formatters, the condition resolver,     *)
(* Clause and Statement are those of mosql.util2, which common2 imports.  *)
(* The caller's strings hold no space, so that every space of a returned  *)
(* statement is one the builders put there.                               *)
(***************************************************************************)
EXTENDS Integers, Sequences, FiniteSets, TLC

\* ------------------------------------------------------------------ bounds

MaxStr == 2
MaxPairs == 2

\* ------------------------------------------------------------ caller values

None == [t |-> "None", v |-> <<>>]
Str(s) == [t |-> "str", v |-> s]
Num(n) == [t |-> "int", v |-> n]
raw(s) == [t |-> "raw", v |-> s]
param(s) == [t |-> "param", v |-> s]
param_cls == [t |-> "param_cls", v |-> <<>>]
Tuple(xs) == [t |-> "tuple", v |-> xs]
Dict(kvs) == [t |-> "dict", v |-> kvs]

\* pipeline intermediates
Text(s) == [t |-> "text", v |-> s]
List(ss) == [t |-> "list", v |-> ss]
Error == [t |-> "error", v |-> <<>>]

\* -------------------------------------------------------------------- texts

RECURSIVE JoinBy(_, _)
JoinBy(texts, sep) ==
    IF texts = <<>> THEN <<>>
    ELSE IF Len(texts) = 1 THEN texts[1]
    ELSE texts[1] \o sep \o JoinBy(Tail(texts), sep)

RECURSIVE escape(_)
escape(s) ==
    IF s = <<>> THEN <<>>
    ELSE (IF s[1] = "'" THEN <<"'", "'">> ELSE <<s[1]>>) \o escape(Tail(s))

Digit(d) == CASE d = 0 -> "0" [] d = 1 -> "1" [] d = 2 -> "2" [] d = 3 -> "3"
              [] d = 4 -> "4" [] d = 5 -> "5" [] d = 6 -> "6" [] d = 7 -> "7"
              [] d = 8 -> "8" [] d = 9 -> "9"

RECURSIVE Decimal(_)
Decimal(n) == IF n < 10 THEN <<Digit(n)>> ELSE Decimal(n \div 10) \o <<Digit(n % 10)>>

\* -------------------------------------------------------- scalar formatters

value_scalar(x) ==
    CASE x.t = "None" -> Text(<<"NULL">>)
      [] x.t = "str" -> Text(<<"'">> \o escape(x.v) \o <<"'">>)
      [] x.t = "int" -> Text(Decimal(x.v))
      [] x.t = "raw" -> Text(x.v)
      [] x.t = "param" -> Text(<<"%", "(">> \o x.v \o <<")", "s">>)
      [] OTHER -> Error

identifier_scalar(x) ==
    CASE x.t = "str" -> Text(<<"\"">> \o x.v \o <<"\"">>)
      [] x.t = "raw" -> Text(x.v)
      [] OTHER -> Error

\* a formatter applied to a sequence formats each element
Texts(ys) ==
    IF \E i \in 1..Len(ys) : ys[i].t # "text" THEN Error
    ELSE List([i \in 1..Len(ys) |-> ys[i].v])

value(x) ==
    IF x.t = "tuple" THEN Texts([i \in 1..Len(x.v) |-> value_scalar(x.v[i])])
    ELSE value_scalar(x)

identifier(x) ==
    IF x.t = "tuple" THEN Texts([i \in 1..Len(x.v) |-> identifier_scalar(x.v[i])])
    ELSE identifier_scalar(x)

\* -------------------------------------------------------------- combinators

\* the strings of a caller value handed to a combinator unformatted
Strings(x) ==
    CASE x.t \in {"text", "list", "error"} -> x
      [] x.t \in {"str", "raw"} -> Text(x.v)
      [] x.t = "tuple" ->
           IF \A i \in 1..Len(x.v) : x.v[i].t \in {"str", "raw"}
           THEN List([i \in 1..Len(x.v) |-> x.v[i].v]) ELSE Error
      [] OTHER -> Error

concat_by(x, sep) ==
    LET y == Strings(x)
    IN IF y.t = "list" THEN Text(JoinBy(y.v, sep)) ELSE y

concat_by_comma(x) == concat_by(x, <<",", " ">>)

concat_by_space(x) == concat_by(x, <<" ">>)

paren(x) ==
    LET y == Strings(x)
    IN IF y.t = "text" /\ y.v # <<>> THEN Text(<<"(">> \o y.v \o <<")">>)
       ELSE IF y.t = "list" THEN Error ELSE y

\* ------------------------------------------------------- condition resolver

\* a mapping iterates in its native order; a sequence of pairs in the caller's
dict_items(x) == Tuple([i \in 1..Len(x.v) |-> Tuple(<<Str(x.v[i][1]), x.v[i][2]>>)])

\* the lexical order of strings
Code(c) == CASE c = " " -> 32 [] c = "!" -> 33 [] c = "<" -> 60 [] c = "=" -> 61
             [] c = ">" -> 62 [] c = "a" -> 97 [] c = "w" -> 119 [] c = "x" -> 120
             [] c = "y" -> 121 [] OTHER -> 122

RECURSIVE LexLeq(_, _)
LexLeq(s, u) ==
    IF s = <<>> THEN TRUE
    ELSE IF u = <<>> THEN FALSE
    ELSE IF Code(s[1]) # Code(u[1]) THEN Code(s[1]) < Code(u[1])
    ELSE LexLeq(Tail(s), Tail(u))

\* iterating a mapping in sorted-by-key order
to_pairs_sorted(x) ==
    IF x.t # "dict" THEN x
    ELSE LET n == Len(x.v)
             pos(i) == 1 + Cardinality({j \in 1..n : x.v[j][1] # x.v[i][1] /\ LexLeq(x.v[j][1], x.v[i][1])})
             at(p) == CHOOSE i \in 1..n : pos(i) = p
         IN dict_items(Dict([p \in 1..n |-> x.v[at(p)]]))

to_pairs(x) == IF x.t = "dict" THEN dict_items(x) ELSE x

IsPairs(x) ==
    /\ x.t = "tuple"
    /\ \A i \in 1..Len(x.v) :
         /\ x.v[i].t = "tuple"
         /\ Len(x.v[i].v) = 2
         /\ x.v[i].v[1].t = "str"

Lower(c) == CASE c = "L" -> "l" [] c = "I" -> "i" [] c = "K" -> "k" [] c = "E" -> "e"
              [] c = "N" -> "n" [] c = "S" -> "s" [] OTHER -> c

Upper(c) == CASE c = "l" -> "L" [] c = "i" -> "I" [] c = "k" -> "K" [] c = "e" -> "E"
              [] c = "n" -> "N" [] c = "s" -> "S" [] OTHER -> c

LowerText(s) == [i \in 1..Len(s) |-> Lower(s[i])]

UpperText(s) == [i \in 1..Len(s) |-> Upper(s[i])]

KnownOps == { <<"=">>, <<"!", "=">>, <<"<", ">">>, <<"<">>, <<"<", "=">>, <<">">>,
              <<">", "=">>, <<"l", "i", "k", "e">>, <<"i", "n">>, <<"i", "s">> }

\* str.rfind(' '): the last whitespace of the key, 0 when it has none
LastSpace(k) ==
    LET S == {i \in 1..Len(k) : k[i] = " "}
    IN IF S = {} THEN 0 ELSE CHOOSE i \in S : \A j \in S : j <= i

KeyToken(k) == SubSeq(k, LastSpace(k) + 1, Len(k))

HasOp(k) == LastSpace(k) > 0 /\ LowerText(KeyToken(k)) \in KnownOps

KeyColumn(k) == IF HasOp(k) THEN SubSeq(k, 1, LastSpace(k) - 1) ELSE k

InferOp(v) ==
    CASE v.t = "None" -> <<"I", "S">>
      [] v.t = "tuple" -> <<"I", "N">>
      [] OTHER -> <<"=">>

KeyOp(k, v) == IF HasOp(k) THEN UpperText(KeyToken(k)) ELSE InferOp(v)

\* the bare param sentinel takes its name from the entry's column
Operand(col, v) ==
    LET w == IF v.t = "param_cls" THEN param(col) ELSE v
    IN IF w.t = "tuple" THEN paren(concat_by_comma(value(w))) ELSE value(w)

Condition(k, v) ==
    LET col == identifier(Str(KeyColumn(k)))
        rhs == Operand(KeyColumn(k), v)
    IN IF col.t # "text" \/ rhs.t # "text" THEN Error
       ELSE Text(col.v \o <<" ">> \o KeyOp(k, v) \o <<" ">> \o rhs.v)

Assignment(k, v) ==
    LET col == identifier(Str(k))
        rhs == Operand(k, v)
    IN IF col.t # "text" \/ rhs.t # "text" THEN Error
       ELSE Text(col.v \o <<"=">> \o rhs.v)

Joined(cs, sep) ==
    IF \E i \in 1..Len(cs) : cs[i].t # "text" THEN Error
    ELSE Text(JoinBy([i \in 1..Len(cs) |-> cs[i].v], sep))

build_where(x) ==
    LET ps == to_pairs(x)
    IN IF ~IsPairs(ps) THEN Error
       ELSE Joined([i \in 1..Len(ps.v) |-> Condition(ps.v[i].v[1].v, ps.v[i].v[2])],
                   <<" ", "AND", " ">>)

build_set(x) ==
    LET ps == to_pairs(x)
    IN IF ~IsPairs(ps) THEN Error
       ELSE Joined([i \in 1..Len(ps.v) |-> Assignment(ps.v[i].v[1].v, ps.v[i].v[2])],
                   <<",", " ">>)

\* --------------------------------------------------------- Clause, Statement

Clause(name, pipeline, hidden) == [name |-> name, pipeline |-> pipeline, hidden |-> hidden]

Apply(f, x) ==
    IF x.t = "error" THEN Error
    ELSE CASE f = "value" -> value(x)
           [] f = "identifier" -> identifier(x)
           [] f = "concat_by_comma" -> concat_by_comma(x)
           [] f = "concat_by_space" -> concat_by_space(x)
           [] f = "paren" -> paren(x)
           [] f = "build_where" -> build_where(x)
           [] f = "build_set" -> build_set(x)

RECURSIVE RunPipeline(_, _)
RunPipeline(pipeline, x) ==
    IF pipeline = <<>> THEN x
    ELSE RunPipeline(Tail(pipeline), Apply(Head(pipeline), x))

\* the keyword a clause emits: its name in upper case
Keyword(name) ==
    CASE name = "insert into" -> "INSERT INTO" [] name = "columns" -> "COLUMNS"
      [] name = "values" -> "VALUES" [] name = "returning" -> "RETURNING"
      [] name = "select" -> "SELECT" [] name = "from" -> "FROM"
      [] name = "joins" -> "JOINS" [] name = "where" -> "WHERE"
      [] name = "group by" -> "GROUP BY" [] name = "having" -> "HAVING"
      [] name = "order by" -> "ORDER BY" [] name = "limit" -> "LIMIT"
      [] name = "offset" -> "OFFSET" [] name = "update" -> "UPDATE"
      [] name = "set" -> "SET" [] name = "delete from" -> "DELETE FROM"

Bound(c, args) == IF c.name \in DOMAIN args THEN args[c.name] ELSE None

Clause_format(c, x) ==
    IF x.t = "None" THEN Text(<<>>)
    ELSE LET r == RunPipeline(c.pipeline, x)
         IN IF r.t # "text" THEN Error
            ELSE IF r.v = <<>> THEN r
            ELSE IF c.hidden THEN r
            ELSE Text(<<Keyword(c.name), " ">> \o r.v)

NonEmpty(ts) == SelectSeq(ts, LAMBDA t : t # <<>>)

Statement_format(stat, args) ==
    LET fs == [i \in 1..Len(stat) |-> Clause_format(stat[i], Bound(stat[i], args))]
    IN IF \E i \in 1..Len(fs) : fs[i].t # "text" THEN Error
       ELSE Text(JoinBy(NonEmpty([i \in 1..Len(fs) |-> fs[i].v]), <<" ">>))

\* ------------------------------------------------- the module's templates

single_value == <<"value">>
single_identifier == <<"identifier">>
identifier_list == <<"identifier", "concat_by_comma">>
where_list_as_set == <<"build_set">>

where_list == <<"build_where">>
set_list == <<"build_set">>
statement_list == <<"concat_by_space">>

insert == Clause("insert into", single_identifier, FALSE)
columns == Clause("columns", <<"identifier", "concat_by_comma", "paren">>, TRUE)
values_as_identifiers == Clause("values", <<"identifier", "concat_by_comma", "paren">>, FALSE)

values == Clause("values", <<"value", "concat_by_comma", "paren">>, FALSE)
returning == Clause("returning", identifier_list, FALSE)

insert_into_stat == <<insert, columns, values, returning>>

select == Clause("select", identifier_list, FALSE)
from_ == Clause("from", identifier_list, FALSE)
joins == Clause("joins", statement_list, TRUE)
where_hidden == Clause("where", where_list, TRUE)

where == Clause("where", where_list, FALSE)
group_by == Clause("group by", identifier_list, FALSE)
having == Clause("having", where_list, FALSE)
order_by == Clause("order by", identifier_list, FALSE)
limit == Clause("limit", single_value, FALSE)
offset == Clause("offset", single_value, FALSE)

select_stat == <<select, from_, joins, where, group_by, having, order_by, limit, offset>>

update == Clause("update", single_identifier, FALSE)
set == Clause("set", set_list, FALSE)

update_stat_where_first == <<update, where, set, returning>>

update_stat == <<update, set, where, returning>>

delete == Clause("delete from", single_identifier, FALSE)

delete_stat == <<delete, where, returning>>

Templates ==
    [insert_into_stat |-> insert_into_stat, select_stat |-> select_stat,
     update_stat |-> update_stat, delete_stat |-> delete_stat]

\* -------------------------------------------------- the arguments mapping

NoArgs == [n \in {} |-> None]

Put(d, k, x) == [n \in DOMAIN d \cup {k} |-> IF n = k THEN x ELSE d[n]]

Del(d, k) == [n \in DOMAIN d \ {k} |-> d[n]]

Rename(d, k, k2) == IF k \in DOMAIN d THEN Del(Put(d, k2, d[k]), k) ELSE d

\* **clauses_args collects the call's keyword arguments in a dict of its own
\* one dict shared by all calls: what an earlier call left in it stays
kwargs_shared(last, kw) == [n \in DOMAIN last \cup DOMAIN kw |-> IF n \in DOMAIN kw THEN kw[n] ELSE last[n]]

kwargs(last, kw) == kw

\* zip(*pairs) unpacked into two names
Zippable(pairs) ==
    /\ pairs.t = "tuple"
    /\ Len(pairs.v) > 0
    /\ \A i \in 1..Len(pairs.v) : pairs.v[i].t = "tuple" /\ Len(pairs.v[i].v) = 2

Unzip(pairs, j) == Tuple([i \in 1..Len(pairs.v) |-> pairs.v[i].v[j]])

\* the else branch binding the values to both clauses
insert_args_columns_from_values(ca, table, pairs_or_columns, vals) ==
    LET a == Put(ca, "insert into", table)
    IN IF vals.t = "None"
       THEN LET pairs == IF pairs_or_columns.t = "dict"
                         THEN dict_items(pairs_or_columns) ELSE pairs_or_columns
            IN IF Zippable(pairs)
               THEN [raised |-> FALSE,
                     args |-> Put(Put(a, "columns", Unzip(pairs, 1)), "values", Unzip(pairs, 2))]
               ELSE [raised |-> TRUE, args |-> a]
       ELSE [raised |-> FALSE, args |-> Put(Put(a, "columns", vals), "values", vals)]

\* zip(*pairs) unpacked into the two names in the wrong order
insert_args_zip_swapped(ca, table, pairs_or_columns, vals) ==
    LET a == Put(ca, "insert into", table)
    IN IF vals.t = "None"
       THEN LET pairs == IF pairs_or_columns.t = "dict"
                         THEN dict_items(pairs_or_columns) ELSE pairs_or_columns
            IN IF Zippable(pairs)
               THEN [raised |-> FALSE,
                     args |-> Put(Put(a, "columns", Unzip(pairs, 2)), "values", Unzip(pairs, 1))]
               ELSE [raised |-> TRUE, args |-> a]
       ELSE [raised |-> FALSE,
             args |-> Put(Put(a, "columns", pairs_or_columns), "values", vals)]

insert_args(ca, table, pairs_or_columns, vals) ==
    LET a == Put(ca, "insert into", table)
    IN IF vals.t = "None"
       THEN LET pairs == IF pairs_or_columns.t = "dict"
                         THEN dict_items(pairs_or_columns) ELSE pairs_or_columns
            IN IF Zippable(pairs)
               THEN [raised |-> FALSE,
                     args |-> Put(Put(a, "columns", Unzip(pairs, 1)), "values", Unzip(pairs, 2))]
               ELSE [raised |-> TRUE, args |-> a]
       ELSE [raised |-> FALSE,
             args |-> Put(Put(a, "columns", pairs_or_columns), "values", vals)]

select_args(ca, table, wh, sel) ==
    LET a == Put(Put(Put(ca, "from", table), "where", wh), "select", sel)
    IN [raised |-> FALSE,
        args |-> Rename(Rename(a, "order_by", "order by"), "group_by", "group by")]

\* the where clause bound to the set argument
update_args_where_from_set(ca, table, wh, st) ==
    [raised |-> FALSE, args |-> Put(Put(Put(ca, "update", table), "where", st), "set", st)]

update_args(ca, table, wh, st) ==
    [raised |-> FALSE, args |-> Put(Put(Put(ca, "update", table), "where", wh), "set", st)]

delete_args(ca, table, wh) ==
    [raised |-> FALSE, args |-> Put(Put(ca, "delete from", table), "where", wh)]

Formatted(stat, r) == IF r.raised THEN Error ELSE Statement_format(stat, r.args)

\* ------------------------------------------------------------------ inputs

StrChars == {"a", "'"}

Strs == UNION {[1..n -> StrChars] : n \in 0..MaxStr}

Tables == {Str(<<"t">>)}

Scalars == {None, Num(20), raw(<<"n", "(", ")">>), param(<<"p">>)} \cup {Str(s) : s \in Strs}

Tuples == {Tuple(<<Num(1), Num(2)>>), Tuple(<<Str(<<"a", "'">>)>>)}

OpKeys == { <<"x", " ", ">">>, <<"x", " ", "!", "=">>, <<"y", " ", "l", "i", "k", "e">>,
            <<"y", " ", "L", "i", "K", "e">>, <<"x", " ", "i", "n">>, <<"y", " ", "i", "s">>,
            <<"x", " ", "a">>, <<"w", " ", "<", "=">> }

\* an explicit IN takes a sequence, an explicit IS takes None
OpVals(k) ==
    IF LowerText(KeyToken(k)) = <<"i", "n">> THEN Tuples
    ELSE IF LowerText(KeyToken(k)) = <<"i", "s">> THEN {None}
    ELSE {Str(<<"a", "'">>), param_cls}

PlainEntries == {<<<<"x">>, x>> : x \in Scalars \cup Tuples \cup {param_cls}}

OpEntries == UNION {{<<k, x>> : x \in OpVals(k)} : k \in OpKeys}

SmallEntries ==
    { <<<<"x">>, Str(<<"a">>)>>, <<<<"x">>, param_cls>>, <<<<"y">>, Str(<<"a", "'">>)>>,
      <<<<"w", " ", "<", "=">>, Num(20)>> }

DistinctKeys(ps) == \A i, j \in 1..Len(ps) : i # j => ps[i][1] # ps[j][1]

MultiEntries ==
    {ps \in UNION {[1..n -> SmallEntries] : n \in 2..MaxPairs} : DistinctKeys(ps)}

PairsOf(ps) == Tuple([i \in 1..Len(ps) |-> Tuple(<<Str(ps[i][1]), ps[i][2]>>)])

Wheres ==
    {None}
      \cup {Dict(ps) : ps \in {<<>>} \cup {<<e>> : e \in PlainEntries \cup OpEntries} \cup MultiEntries}
      \cup {PairsOf(ps) : ps \in {<<>>} \cup {<<e>> : e \in PlainEntries} \cup MultiEntries}

BasicWheres == {None, Dict(<<<<<<"x">>, Str(<<"a">>)>>>>)}

SetEntries ==
    { <<<<"x">>, Str(<<"a", "'">>)>>, <<<<"x">>, None>>, <<<<"x">>, param_cls>>,
      <<<<"y">>, Num(20)>>, <<<<"z">>, raw(<<"n", "(", ")">>)>> }

SetSeqs ==
    {ps \in UNION {[1..n -> SetEntries] : n \in 0..MaxPairs} : DistinctKeys(ps)}

Sets == {Dict(ps) : ps \in SetSeqs} \cup {PairsOf(ps) : ps \in SetSeqs}

BasicSets == {Dict(<<<<<<"x">>, Str(<<"a", "'">>)>>>>)}

InsertEntries ==
    { <<<<"x">>, Str(<<"a", "'">>)>>, <<<<"x">>, Num(20)>>, <<<<"y">>, None>>,
      <<<<"z">>, raw(<<"n", "(", ")">>)>> }

InsertSeqs ==
    {<<>>} \cup {<<<<<<"x">>, x>>>> : x \in Scalars}
      \cup {ps \in UNION {[1..n -> InsertEntries] : n \in 2..MaxPairs} : DistinctKeys(ps)}

Selects == {raw(<<"c", "(", "*", ")">>), Tuple(<<Str(<<"x">>), Str(<<"y">>)>>)}

KwValue(k) ==
    CASE k = "joins" -> Tuple(<<Str(<<"j">>), Str(<<"'">>)>>)
      [] k = "group_by" -> Tuple(<<Str(<<"g">>)>>)
      [] k = "having" -> Dict(<<<<<<"y", " ", ">">>, Num(1)>>, <<<<"w">>, param_cls>>>>)
      [] k = "order_by" -> Tuple(<<Str(<<"o">>), Str(<<"p">>)>>)
      [] k = "limit" -> Num(3)
      [] k = "offset" -> Num(20)
      [] k = "returning" -> raw(<<"*">>)

KwArgs(keys) == {[k \in D |-> KwValue(k)] : D \in SUBSET keys}

\* a keyword argument given as None, or as an empty sequence
EmptyKws == {[k \in {"offset"} |-> None], [k \in {"group_by"} |-> Tuple(<<>>)]}

SelectKws ==
    KwArgs({"joins", "group_by", "having", "order_by", "limit", "offset"}) \cup EmptyKws

ReturningKws ==
    KwArgs({"returning"}) \cup {[k \in {"returning"} |-> Tuple(<<Str(<<"x">>), Str(<<"y">>)>>)]}

\* ------------------------------------------------------------------- state

VARIABLES stats, select_default, clauses_args, call, result

vars == <<stats, select_default, clauses_args, call, result>>

Call(fn, table, a, b, kw) == [fn |-> fn, table |-> table, a |-> a, b |-> b, kw |-> kw]

Init ==
    /\ stats = Templates
    /\ select_default = raw(<<"*">>)
    /\ clauses_args = NoArgs
    /\ call = Call("none", None, None, None, NoArgs)
    /\ result = Text(<<>>)

Returns(stat, r) ==
    /\ clauses_args' = r.args
    /\ result' = Formatted(stat, r)
    /\ UNCHANGED <<stats, select_default>>

\* insert(table, pairs_or_columns=None, values=None, **clauses_args)
Insert ==
    \E table \in Tables, ps \in InsertSeqs, form \in {"dict", "pairs", "columns", "values"},
       kw \in ReturningKws :
        LET poc == CASE form = "dict" -> Dict(ps)
                     [] form = "pairs" -> PairsOf(ps)
                     [] form = "columns" -> Unzip(PairsOf(ps), 1)
                     [] form = "values" -> None
            vals == IF form \in {"columns", "values"} THEN Unzip(PairsOf(ps), 2) ELSE None
        IN /\ kw = NoArgs \/ form = "dict"
           /\ call' = Call("insert", table, poc, vals, kw)
           /\ Returns(stats.insert_into_stat,
                      insert_args(kwargs(clauses_args, kw), table, poc, vals))

\* select(table, where=None, select=raw('*'), **clauses_args)
Select ==
    \E table \in Tables, wh \in Wheres, sel \in Selects \cup {select_default},
       kw \in SelectKws :
        /\ \/ kw = NoArgs /\ sel = select_default
           \/ wh \in BasicWheres /\ sel = select_default
           \/ wh \in BasicWheres /\ kw = NoArgs
        /\ call' = Call("select", table, wh, sel, kw)
        /\ Returns(stats.select_stat, select_args(kwargs(clauses_args, kw), table, wh, sel))

\* update(table, where, set, **clauses_args)
Update ==
    \E table \in Tables, wh \in Wheres, st \in Sets, kw \in ReturningKws :
        /\ \/ st \in BasicSets /\ kw = NoArgs
           \/ wh \in BasicWheres /\ kw = NoArgs
           \/ wh \in BasicWheres /\ st \in BasicSets
        /\ call' = Call("update", table, wh, st, kw)
        /\ Returns(stats.update_stat, update_args(kwargs(clauses_args, kw), table, wh, st))

\* delete(table, where, **clauses_args)
Delete ==
    \E table \in Tables, wh \in Wheres, kw \in ReturningKws :
        /\ wh \in BasicWheres \/ kw = NoArgs
        /\ call' = Call("delete", table, wh, None, kw)
        /\ Returns(stats.delete_stat, delete_args(kwargs(clauses_args, kw), table, wh))

Next == Insert \/ Select \/ Update \/ Delete

Spec == Init /\ [][Next]_vars

\* ------------------------------------------------- reading the output text

Out == result.v

Returned == call.fn # "none" /\ result.t = "text"

ClauseKeywords ==
    {"INSERT INTO", "VALUES", "RETURNING", "SELECT", "FROM", "WHERE", "GROUP BY", "HAVING",
     "ORDER BY", "LIMIT", "OFFSET", "UPDATE", "SET", "DELETE FROM", "COLUMNS", "JOINS"}

Min(S) == CHOOSE i \in S : \A j \in S : i <= j

Positions(s, a) == {i \in 1..Len(s) : s[i] = a}

IndexOf(s, a) == IF Positions(s, a) = {} THEN 0 ELSE Min(Positions(s, a))

KeywordsOf(s) == SelectSeq(s, LAMBDA a : a \in ClauseKeywords)

\* the text a keyword introduces: up to the next keyword, or to the end
Fragment(s, kw) ==
    LET i == IndexOf(s, kw)
        later == {j \in (i + 1)..Len(s) : s[j] \in ClauseKeywords}
    IN IF i = 0 THEN <<>>
       ELSE SubSeq(s, i + 2, IF later = {} THEN Len(s) ELSE Min(later) - 2)

\* the pieces of s between the occurrences of the atom a
RECURSIVE Split(_, _)
Split(s, a) ==
    LET i == IndexOf(s, a)
    IN IF i = 0 THEN <<s>> ELSE <<SubSeq(s, 1, i - 1)>> \o Split(SubSeq(s, i + 1, Len(s)), a)

\* the conditions of a WHERE fragment, without the spaces around AND
Conditions(frag) ==
    LET ps == Split(frag, "AND")
        n == Len(ps)
    IN IF frag = <<>> THEN <<>>
       ELSE [i \in 1..n |->
               SubSeq(ps[i], IF i = 1 THEN 1 ELSE 2, IF i = n THEN Len(ps[i]) ELSE Len(ps[i]) - 1)]

\* the items of a comma list, without the space after each comma
Items(list) ==
    LET ps == Split(list, ",")
    IN IF list = <<>> THEN <<>>
       ELSE [i \in 1..Len(ps) |-> IF i = 1 THEN ps[i] ELSE Tail(ps[i])]

\* the identifier a condition starts with: the text between its first two quotes
ColumnOf(cond) ==
    LET q == Positions(cond, "\"")
    IN IF Cardinality(q) < 2 \/ cond[1] # "\"" THEN <<"?">>
       ELSE SubSeq(cond, 2, Min(q \ {1}) - 1)

\* the (key, value) entries of a where or set argument, in the order the
\* caller's object holds them
Entries(x) ==
    CASE x.t = "dict" -> x.v
      [] x.t = "tuple" -> [i \in 1..Len(x.v) |-> <<x.v[i].v[1].v, x.v[i].v[2]>>]
      [] OTHER -> <<>>

Quoted(s) == <<"\"">> \o s \o <<"\"">>

StartsWith(s, pre) == Len(s) >= Len(pre) /\ SubSeq(s, 1, Len(pre)) = pre

HasWhere == call.fn \in {"select", "update", "delete"}

WhereConditions == Conditions(Fragment(Out, "WHERE"))

IsEmptyArg(x) == x.t = "None" \/ (x.t \in {"dict", "tuple"} /\ x.v = <<>>)

Given(k) == k \in DOMAIN call.kw /\ ~IsEmptyArg(call.kw[k])

\* -------------------------------------------------------------------- C1
\* C1: the clause keywords of every returned statement appear in the declared
\* order of its statement, each at most once, whatever arguments are present;
\* the hidden column list sits right before VALUES and the hidden joins
\* between the FROM clause and every later clause.

DeclaredOrder(fn) ==
    CASE fn = "insert" -> <<"INSERT INTO", "VALUES", "RETURNING">>
      [] fn = "select" -> <<"SELECT", "FROM", "WHERE", "GROUP BY", "HAVING", "ORDER BY",
                            "LIMIT", "OFFSET">>
      [] fn = "update" -> <<"UPDATE", "SET", "WHERE", "RETURNING">>
      [] fn = "delete" -> <<"DELETE FROM", "WHERE", "RETURNING">>

Rank(fn, kw) == IndexOf(DeclaredOrder(fn), kw)

InDeclaredOrder(fn, ks) ==
    /\ \A i \in 1..Len(ks) : Rank(fn, ks[i]) > 0
    /\ \A i, j \in 1..Len(ks) : i < j => Rank(fn, ks[i]) < Rank(fn, ks[j])

HiddenInPlace ==
    /\ (call.fn = "insert" /\ ~IsEmptyArg(call.a) /\ IndexOf(Out, "VALUES") > 0)
         => /\ IndexOf(Out, "(") < IndexOf(Out, "VALUES")
            /\ Out[IndexOf(Out, "VALUES") - 2] = ")"
    /\ (call.fn = "select" /\ Given("joins"))
         => /\ IndexOf(Out, "j") > IndexOf(Out, "FROM")
            /\ \A i \in 1..Len(Out) :
                 Rank("select", Out[i]) > Rank("select", "FROM") => IndexOf(Out, "j") < i

C1_ClauseOrder == Returned => InDeclaredOrder(call.fn, KeywordsOf(Out)) /\ HiddenInPlace

C1_Witness ==
    /\ Returned
    /\ call.fn = "update"
    /\ KeywordsOf(Out) = <<"UPDATE", "SET", "WHERE", "RETURNING">>

\* -------------------------------------------------------------------- C2
\* C2: a clause whose argument is None, not supplied or empty leaves neither
\* its keyword nor its text in the returned statement (insert with values
\* only has no column list, select with where=None no WHERE), and the
\* statement has no leading space, no trailing space and no double space.

AbsentKeywords ==
    CASE call.fn = "insert" ->
           {"COLUMNS"} \cup (IF Given("returning") THEN {} ELSE {"RETURNING"})
             \cup (IF call.b.t = "tuple" /\ call.b.v = <<>> THEN {"VALUES"} ELSE {})
      [] call.fn = "select" ->
           {"JOINS"} \cup (IF IsEmptyArg(call.a) THEN {"WHERE"} ELSE {})
             \cup (IF Given("group_by") THEN {} ELSE {"GROUP BY"})
             \cup (IF Given("having") THEN {} ELSE {"HAVING"})
             \cup (IF Given("order_by") THEN {} ELSE {"ORDER BY"})
             \cup (IF Given("limit") THEN {} ELSE {"LIMIT"})
             \cup (IF Given("offset") THEN {} ELSE {"OFFSET"})
      [] call.fn = "update" ->
           (IF IsEmptyArg(call.a) THEN {"WHERE"} ELSE {})
             \cup (IF IsEmptyArg(call.b) THEN {"SET"} ELSE {})
             \cup (IF Given("returning") THEN {} ELSE {"RETURNING"})
      [] call.fn = "delete" ->
           (IF IsEmptyArg(call.a) THEN {"WHERE"} ELSE {})
             \cup (IF Given("returning") THEN {} ELSE {"RETURNING"})

\* the hidden clauses: the column list of insert, the joins of select
HiddenAbsent ==
    /\ (call.fn = "insert" /\ IsEmptyArg(call.a) /\ IndexOf(Out, "VALUES") > 0)
         => Out[IndexOf(Out, "VALUES") - 2] = "\""
    /\ (call.fn = "insert" /\ IsEmptyArg(call.a) /\ IndexOf(Out, "VALUES") = 0)
         => KeywordsOf(Out) = <<"INSERT INTO">> /\ Out[Len(Out)] = "\""
    /\ (call.fn = "select" /\ ~Given("joins")) => IndexOf(Out, "j") = 0

SingleSpaced(s) ==
    /\ s # <<>>
    /\ s[1] # " "
    /\ s[Len(s)] # " "
    /\ \A i \in 1..(Len(s) - 1) : ~(s[i] = " " /\ s[i + 1] = " ")

C2_AbsentClauseOmitted ==
    Returned => /\ \A i \in 1..Len(Out) : Out[i] \notin AbsentKeywords
                /\ HiddenAbsent
                /\ SingleSpaced(Out)

C2_Witness ==
    /\ Returned
    /\ call.fn = "insert"
    /\ call.a = None
    /\ KeywordsOf(Out) = <<"INSERT INTO", "VALUES">>

\* -------------------------------------------------------------------- C3
\* C3 (as stated): for a mapping given as where, the conditions of the WHERE
\* fragment are in ascending lexical order of their column name.

ColumnsOf(conds) == [i \in 1..Len(conds) |-> ColumnOf(conds[i])]

WhereColumns == ColumnsOf(WhereConditions)

HavingColumns == ColumnsOf(Conditions(Fragment(Out, "HAVING")))

HasHaving == call.fn = "select" /\ "having" \in DOMAIN call.kw

Ascending(cs) == \A i, j \in 1..Len(cs) : i < j => LexLeq(cs[i], cs[j])

C3_AscendingColumns ==
    /\ (Returned /\ HasWhere /\ call.a.t = "dict") => Ascending(WhereColumns)
    /\ (Returned /\ HasHaving /\ call.kw["having"].t = "dict") => Ascending(HavingColumns)

\* C3 (amended): the conditions of the WHERE (or HAVING) fragment are in the
\* order in which the argument yields its entries: the mapping's own
\* iteration order, or the order of the caller's sequence of pairs.
KeyColumns(x) == [i \in 1..Len(Entries(x)) |-> KeyColumn(Entries(x)[i][1])]

C3_IterationOrder ==
    /\ (Returned /\ HasWhere) => WhereColumns = KeyColumns(call.a)
    /\ (Returned /\ HasHaving) => HavingColumns = KeyColumns(call.kw["having"])

C3_Witness ==
    /\ Returned
    /\ HasWhere
    /\ call.a.t = "dict"
    /\ Len(WhereColumns) = 2
    /\ ~Ascending(WhereColumns)

\* -------------------------------------------------------------------- C4
\* C4: every where entry (key, value) is rendered "column" OPERATOR value; a
\* key ending, after its last whitespace, in a known operator (in any case)
\* gives that operator and loses it from the column; otherwise None gives
\* IS NULL, a sequence gives IN (v1, v2, ...) and anything else gives =; the
\* conditions are joined by " AND ".

ConditionAsClaimed(k, x, cond) ==
    LET tok == KeyToken(k)
        explicit == LastSpace(k) > 0 /\ LowerText(tok) \in KnownOps
        col == IF explicit THEN SubSeq(k, 1, Len(k) - Len(tok) - 1) ELSE k
        rest == SubSeq(cond, Len(col) + 4, Len(cond))
    IN /\ StartsWith(cond, Quoted(col) \o <<" ">>)
       /\ explicit => StartsWith(rest, UpperText(tok) \o <<" ">>)
       /\ (~explicit /\ x.t = "None") => rest = <<"I", "S", " ", "NULL">>
       /\ (~explicit /\ x.t = "tuple") =>
            /\ StartsWith(rest, <<"I", "N", " ", "(">>)
            /\ rest[Len(rest)] = ")"
            /\ Len(Items(SubSeq(rest, 5, Len(rest) - 1))) = Len(x.v)
       /\ (~explicit /\ x.t \notin {"None", "tuple"}) => StartsWith(rest, <<"=", " ">>)

C4_WhereConditions ==
    (Returned /\ HasWhere) =>
        /\ Len(WhereConditions) = Len(Entries(call.a))
        /\ \A i \in 1..Len(Entries(call.a)) :
             ConditionAsClaimed(Entries(call.a)[i][1], Entries(call.a)[i][2], WhereConditions[i])
        /\ Fragment(Out, "WHERE") = JoinBy(WhereConditions, <<" ", "AND", " ">>)

C4_Witness ==
    /\ Returned
    /\ call.fn = "select"
    /\ call.a = Dict(<<<<<<"y", " ", "L", "i", "K", "e">>, Str(<<"a", "'">>)>>>>)
    /\ Fragment(Out, "WHERE") = <<"\"", "y", "\"", " ", "L", "I", "K", "E", " ", "'", "a", "'", "'", "'">>

\* -------------------------------------------------------------------- C8
\* C8: a where entry whose value is the bare param sentinel is rendered with
\* the placeholder %(column)s named after its own column, and one whose value
\* is param(name) with %(name)s, whatever the column.

Placeholder(name) == <<"%", "(">> \o name \o <<")", "s">>

C8_ParamPlaceholders ==
    (Returned /\ HasWhere) =>
        /\ Len(WhereConditions) = Len(Entries(call.a))
        /\ \A i \in 1..Len(Entries(call.a)) :
             LET k == Entries(call.a)[i][1]
                 x == Entries(call.a)[i][2]
                 cond == WhereConditions[i]
             IN /\ x.t = "param_cls" =>
                     cond = Quoted(KeyColumn(k)) \o <<" ">> \o KeyOp(k, x) \o <<" ">>
                              \o Placeholder(KeyColumn(k))
                /\ x.t = "param" =>
                     cond = Quoted(KeyColumn(k)) \o <<" ">> \o KeyOp(k, x) \o <<" ">>
                              \o Placeholder(x.v)

C8_Witness ==
    /\ Returned
    /\ HasWhere
    /\ Len(Entries(call.a)) = 2
    /\ Entries(call.a)[1][2] = param_cls
    /\ WhereConditions[1] = <<"\"", "x", "\"", " ", "=", " ", "%", "(", "x", ")", "s">>

\* -------------------------------------------------------------------- C5
\* C5 (as stated): insert(t, m) for a mapping m returns what insert(t, p)
\* returns for every sequence of pairs p with the same entries, and what
\* insert(t, columns of p, values of p) returns.

InsertResult(poc, vals) ==
    Formatted(Templates.insert_into_stat, insert_args(call.kw, call.table, poc, vals))

Orderings(es) ==
    {p \in [1..Len(es) -> {es[i] : i \in 1..Len(es)}] :
        \A i, j \in 1..Len(es) : i # j => p[i] # p[j]}

C5_ThreeUsagesEqual ==
    (call.fn = "insert" /\ call.b = None /\ call.a.t \in {"dict", "tuple"}) =>
        \A p \in Orderings(Entries(call.a)) :
            /\ InsertResult(PairsOf(p), None) = result
            /\ InsertResult(Unzip(PairsOf(p), 1), Unzip(PairsOf(p), 2)) = result

\* C5 (amended): for a non-empty sequence of pairs p, insert(t, p) returns what
\* insert(t, columns of p, values of p) returns; for a non-empty mapping m,
\* insert(t, m) returns what insert(t, p) returns for p the entries of m in
\* m's own iteration order; and the i-th column identifier of the statement
\* is the i-th entry's column and the i-th value its value.

ColumnList == SubSeq(Out, IndexOf(Out, "(") + 1, IndexOf(Out, ")") - 1)

ValueList ==
    LET f == Fragment(Out, "VALUES")
    IN IF Len(f) < 2 THEN <<>> ELSE SubSeq(f, 2, Len(f) - 1)

PairingKept(es) ==
    /\ Len(Items(ColumnList)) = Len(es)
    /\ Len(Items(ValueList)) = Len(es)
    /\ \A i \in 1..Len(es) :
         /\ Items(ColumnList)[i] = Quoted(es[i][1])
         /\ Items(ValueList)[i] = value_scalar(es[i][2]).v

C5_UsagesAgree ==
    (call.fn = "insert" /\ call.b = None /\ call.a.t \in {"dict", "tuple"}
       /\ Entries(call.a) # <<>>) =>
        LET p == PairsOf(Entries(call.a))
        IN /\ result.t = "text"
           /\ InsertResult(p, None) = result
           /\ InsertResult(Unzip(p, 1), Unzip(p, 2)) = result
           /\ PairingKept(Entries(call.a))

C5_Witness ==
    /\ Returned
    /\ call.fn = "insert"
    /\ call.a.t = "dict"
    /\ Len(call.a.v) = 2
    /\ Len(Items(ColumnList)) = 2

\* -------------------------------------------------------------------- C6
\* C6: every clause of a returned statement that is bound to a caller value
\* not wrapped in raw runs that value through value or identifier, directly
\* or inside build_where or build_set.

Escapers == {"value", "identifier", "build_where", "build_set"}

StatOf(fn) ==
    CASE fn = "insert" -> stats.insert_into_stat
      [] fn = "select" -> stats.select_stat
      [] fn = "update" -> stats.update_stat
      [] fn = "delete" -> stats.delete_stat

Unwrapped(x) == x.t \notin {"None", "raw"}

C6_EveryValueEscaped ==
    Returned =>
        \A i \in 1..Len(StatOf(call.fn)) :
            LET c == StatOf(call.fn)[i]
            IN (c.name \in DOMAIN clauses_args /\ Unwrapped(clauses_args[c.name]))
                 => \E j \in 1..Len(c.pipeline) : c.pipeline[j] \in Escapers

\* -------------------------------------------------------------------- C7
\* C7: a plain string used as a literal (a value of insert, an operand of
\* where or set) is emitted between two quote characters with every quote
\* inside it doubled, so that the quoted region ends at its closing quote,
\* and the region read back is the string.

RECURSIVE WellQuoted(_)
WellQuoted(body) ==
    IF body = <<>> THEN TRUE
    ELSE IF body[1] # "'" THEN WellQuoted(Tail(body))
    ELSE Len(body) >= 2 /\ body[2] = "'" /\ WellQuoted(Tail(Tail(body)))

RECURSIVE Undoubled(_)
Undoubled(body) ==
    IF body = <<>> THEN <<>>
    ELSE IF body[1] = "'" THEN <<"'">> \o Undoubled(Tail(Tail(body)))
    ELSE <<body[1]>> \o Undoubled(Tail(body))

LiteralOf(s, lit) ==
    /\ Len(lit) >= 2
    /\ lit[1] = "'"
    /\ lit[Len(lit)] = "'"
    /\ WellQuoted(SubSeq(lit, 2, Len(lit) - 1))
    /\ Undoubled(SubSeq(lit, 2, Len(lit) - 1)) = s

InsertValues ==
    IF call.b.t = "tuple" THEN call.b.v
    ELSE [i \in 1..Len(Entries(call.a)) |-> Entries(call.a)[i][2]]

SetAssignments == Items(Fragment(Out, "SET"))

C7_StringLiteralsQuoted ==
    Returned =>
        /\ call.fn = "insert" =>
             \A i \in 1..Len(InsertValues) :
                 InsertValues[i].t = "str" =>
                     /\ Len(Items(ValueList)) = Len(InsertValues)
                     /\ LiteralOf(InsertValues[i].v, Items(ValueList)[i])
        /\ HasWhere =>
             \A i \in 1..Len(Entries(call.a)) :
                 LET k == Entries(call.a)[i][1]
                     x == Entries(call.a)[i][2]
                     cond == WhereConditions[i]
                     lead == Len(KeyColumn(k)) + Len(KeyOp(k, x)) + 4
                 IN x.t = "str" => LiteralOf(x.v, SubSeq(cond, lead + 1, Len(cond)))
        /\ call.fn = "update" =>
             \A i \in 1..Len(Entries(call.b)) :
                 LET k == Entries(call.b)[i][1]
                     x == Entries(call.b)[i][2]
                 IN x.t = "str" =>
                      /\ Len(SetAssignments) = Len(Entries(call.b))
                      /\ LiteralOf(x.v, SubSeq(SetAssignments[i], Len(k) + 4,
                                               Len(SetAssignments[i])))

C7_Witness ==
    /\ Returned
    /\ call.fn = "insert"
    /\ InsertValues = <<Str(<<"'", "a">>)>>
    /\ ValueList = <<"'", "'", "'", "a", "'">>

\* -------------------------------------------------------------------- C9
\* C9: no call changes the Clause and Statement templates or the default
\* select value, and every call returns what its own arguments alone
\* determine: its arguments mapping holds nothing of an earlier call.

ArgsOf(c) ==
    CASE c.fn = "insert" -> insert_args(c.kw, c.table, c.a, c.b)
      [] c.fn = "select" -> select_args(c.kw, c.table, c.a, c.b)
      [] c.fn = "update" -> update_args(c.kw, c.table, c.a, c.b)
      [] c.fn = "delete" -> delete_args(c.kw, c.table, c.a)

TemplateOf(fn) ==
    CASE fn = "insert" -> insert_into_stat
      [] fn = "select" -> select_stat
      [] fn = "update" -> update_stat
      [] fn = "delete" -> delete_stat

C10_EmptyWhereUnconditioned ==
    (call.fn \in {"delete", "update"} /\ IsEmptyArg(call.a)) =>
        /\ result.t = "text"
        /\ IndexOf(Out, "WHERE") = 0
        /\ call.fn = "delete" =>
             /\ StartsWith(Out, <<"DELETE FROM", " ">> \o Quoted(call.table.v))
             /\ KeywordsOf(Out) \in {<<"DELETE FROM">>, <<"DELETE FROM", "RETURNING">>}
        /\ (call.fn = "update" /\ ~IsEmptyArg(call.b)) =>
             /\ StartsWith(Out, <<"UPDATE", " ">> \o Quoted(call.table.v) \o <<" ", "SET", " ">>)
             /\ KeywordsOf(Out) \in {<<"UPDATE", "SET">>, <<"UPDATE", "SET", "RETURNING">>}

C10_Witness ==
    /\ call.fn = "update"
    /\ call.a = Dict(<<>>)
    /\ KeywordsOf(Out) = <<"UPDATE", "SET">>

====
